---- MODULE Spec2Model ----
(***************************************************************************)
(* MEG_DSP: the streaming filter pipeline (Filter.FilterManager) driven by *)
(* a consumer thread pulling from transform() while a shell thread mutates *)
(* the pipeline, and the producer queue (DataSource.ThreadedGenerator).    *)
(*                                                                         *)
(* Spec   : FilterManager, one consumer thread, one shell thread.          *)
(* SpecTG : ThreadedGenerator, one producer thread, one polling consumer.  *)
(* SpecTGLive: the same with a consumer that polls for ever and threads    *)
(*          that are scheduled fairly.                                     *)
(* SpecRun: Container.run assembling the source, the managers and the      *)
(*          display, then the display thread pulling frames.               *)
(* SpecFilt: one Differential, PCA or IncrementalPCA filter given chunks.   *)
(* SpecBP : one BandPass or Notch filter, the consumer thread in           *)
(*          process_chunk, the shell thread reconfiguring it.              *)
(* SpecSos: the arithmetic of sosfilt with the state process_chunk carries  *)
(*          from one call to the next.                                     *)
(* SpecSh : the command handlers of the shell on the container and the    *)
(*          pipeline.                                                      *)
(* SpecDisp: one TimeDomain or FrequencyDomain display, the display        *)
(*          manager it is added to, and the frames and chunks it is given.  *)
(* SpecLk : the pipeline with a BandPass in it: the consumer thread takes  *)
(*          the manager lock and the filter's lock, the shell thread        *)
(*          mutates the pipeline and reconfigures the filter.               *)
(***************************************************************************)
EXTENDS Integers, Sequences, FiniteSets, TLC

\* ------------------------------------------------------------------ bounds
\* Number of items the raw stream hands to transform() in one run.
MaxItems == 2
\* Number of shell commands (add_filter / remove_filter / list_filters) in one run.
MaxOps == 3
\* Number of items the generator wrapped by ThreadedGenerator may yield.
MaxGen == 4
\* Number of polls (__next__ calls) the consumer of ThreadedGenerator makes.
MaxPolls == 4
\* The capacity the ThreadedGenerator is built with (max_queue_size).
MaxQueueSize == 2
\* Number of displays registered in the container before run().
MaxDisplays == 2
\* Largest channel count of a chunk handed to a filter.
MaxChannels == 3
\* Largest n_components a decomposition filter is built with.
MaxComponents == 2
\* Number of fits one decomposition model goes through.
MaxFits == 2
\* Largest order a band-pass filter is designed with.
MaxOrder == 2
\* Number of reconfigurations of one BandPass / Notch object.
MaxReconf == 2
\* Number of process_chunk calls on one BandPass / Notch object.
MaxChunks == 2
\* Number of commands, pipeline commands and reconfigurations, the shell issues.
MaxLkOps == 2
\* Number of items the consumer takes while the shell reconfigures.
MaxLkItems == 1
\* Number of samples per channel fed to one BandPass / Notch between two designs.
MaxStream == 3
\* Number of commands typed into the shell.
MaxCmds == 3
\* Number of plots added to one display manager.
MaxPlots == 3
\* Number of frames and chunks one display is given.
MaxFrames == 2

\* Filter names the shell adds, and the names it may ask to remove.
Names == {"bp_filt", "pca_filt"}
RemoveNames == Names \cup {"all"}
\* Filter objects handed to add_filter.
Instances == {"f1", "f2"}

VARIABLES
    \* ---- FilterManager (Filter.py 277-339)
    raw_stream,       \* self.raw_stream: "None" or "bound"
    filters,          \* self.filters: insertion-ordered dict, a sequence of entries
    lock,             \* self.lock: "free", "shell" or "consumer"
    \* ---- the generator returned by transform(), run by the consumer thread
    pc,               \* position of the generator body
    raw_data,         \* the item taken from the raw stream
    filtered_data,    \* the working value of the chunk
    current_filters,  \* the snapshot list(self.filters.values())
    idx,              \* position of the for loop over current_filters
    yielded,          \* the value of the last yield
    error,            \* where the ValueError of transform() surfaced
    \* ---- the shell thread
    shell,            \* the command in progress
    ops,              \* commands issued so far
    listed,           \* the list returned by the last list_filters()
    \* ---- history of the run
    input,            \* the items taken from the raw stream, in order
    emitted,          \* the raw element of every item emitted, in order
    invoked,          \* the filters whose process_chunk ran for the item in flight
    seen,             \* the pipelines held since the item in flight arrived
    snap,             \* self.filters as the snapshot of the item in flight found it
    boundAtCall,      \* whether a source was bound when transform() was called
    emptyAtTake,      \* whether the pipeline was empty when the item was taken
    emptyAtCheck,     \* whether the pipeline was empty when transform() read its length
    clearedAtTake,    \* whether the item was taken after remove_filter("all"), before an add
    clearedAtCheck,   \* the same, at the time transform() read the length
    cleared,          \* remove_filter("all") ran and no add_filter ran since
    lastOp,           \* the last command completed
    before,           \* the pipeline before the last command's mutation
    \* ---- ThreadedGenerator (DataSource.py 138-164)
    queue,            \* self.queue: the items queued, oldest first
    prod,             \* the producer thread: position in _run
    item,             \* the item the producer holds
    produced,         \* items the wrapped generator yielded so far
    cons,             \* the consumer: "idle", "calling", or the outcome of __next__
    got,              \* the value __next__ returned
    prevq,            \* the queue as __next__ found it
    polls,            \* polls made so far
    received,         \* the items __next__ returned, in order
    stops,            \* the times __next__ raised StopIteration
    stopRequested,    \* the application asked the source to stop (close())
    \* ---- Container (Container.py 7-111)
    run_pc,           \* position of main / Container.run
    provider,         \* what self._providers["data_source"] builds
    managers,         \* "filter_manager" and "display_manager" are registered
    displays,         \* len(self._displays)
    data_source,      \* the class of the instance run() resolved
    caught,           \* the exception run()'s except clause caught
    warned,           \* the warning was printed
    run_error,        \* the step whose exception left run()
    plots,            \* displays added to the display manager so far
    master,           \* display_manager.data_generator is set
    sleeps,           \* time.sleep calls made by the thread pulling from transform()
    \* ---- one filter object: Differential, PCA or IncrementalPCA (Filter.py 135-202)
    fclass,           \* the class of the filter
    n_components,     \* self.n_components
    model,            \* self.pca / self.ipca: the decomposition model
    chunk,            \* the chunk of the last process_chunk call
    result,           \* what that call returned, or that it raised
    \* ---- one filter object: BandPass or Notch (Filter.py 27-131)
    bp_class,         \* the class of the filter
    num_channels,     \* self.num_channels
    sos,              \* self.sos: the cascade
    zi_init,          \* self.zi_init
    zi,               \* self.zi: the persisted state
    bp_lock,          \* self.lock: "free", "consumer" or "shell"
    designs,          \* cascades designed after construction
    cpc,              \* the consumer thread: position in process_chunk
    c_data,           \* channel count of the chunk it was given
    c_sos,            \* the self.sos it read
    c_zi,             \* the self.zi it read
    c_done,           \* process_chunk calls completed
    bp_error,         \* the exception of the last process_chunk call
    spc,              \* the shell thread: position in the reconfiguration
    s_req,            \* the reconfiguration it asked for
    \* ---- the numbers of one BandPass / Notch object (Filter.py 69-73, 116-119)
    x_sos,            \* self.sos: the coefficients, section by section
    x_zi,             \* self.zi: the state, [section][channel] -> <<z0, z1>>
    stream_in,        \* the chunks given since the design, concatenated per channel
    stream_out,       \* the chunks returned since the design, concatenated per channel
    \* ---- the shell and the container (Shell.py 39-138, Container.py 45-62)
    ct_filters,       \* the filter names with a provider in the container
    ct_manager,       \* _instances holds "filter_manager"
    ct_instances,     \* _instances of the filter names: an instance, or 0 for none
    created,          \* filter instances built so far
    cmds,             \* commands handled so far
    sh_cmd,           \* the last command
    reported,         \* what that command printed
    escaped,          \* an exception left a command handler
    sh_before,        \* the pipeline before that command
    reconfigured,     \* the instance the last change_filt_coeffs was called on
    \* ---- one display and its display manager (Display.py 42-161, 217-307)
    d_cls,            \* the class of the display, "none" before it is built
    d_points,         \* self.num_points
    d_deques,         \* self.deque_list / self.time_deques: one buffer per channel
    d_lines,          \* len(self.lines), or NoLines while the attribute is not set
    d_index,          \* the display's position in manager.plots, -1 if not added
    dm_plots,         \* len(manager.plots)
    dm_state,         \* the manager: "new", "started", or start() "raised"
    frames,           \* frames and chunks given so far
    d_adv,            \* samples appended to each buffer so far
    d_last,           \* the last call that reached the display: its data, the lines then
    d_before,         \* the buffers before that call
    d_raised,         \* that call raised
    dm_raised         \* the last _main_update raised

fmvars == <<raw_stream, filters, lock, pc, raw_data, filtered_data, current_filters,
            idx, yielded, error, shell, ops, listed, input, emitted, invoked, seen,
            snap, boundAtCall, emptyAtTake, emptyAtCheck, clearedAtTake, clearedAtCheck,
            cleared, lastOp, before>>
tgvars == <<queue, prod, item, produced, cons, got, prevq, polls, received, stops,
            stopRequested>>
runvars == <<run_pc, provider, managers, displays, data_source, caught, warned,
             run_error, plots, master, sleeps>>
filtvars == <<fclass, n_components, model, chunk, result>>
bpvars == <<bp_class, num_channels, sos, zi_init, zi, bp_lock, designs, cpc, c_data,
            c_sos, c_zi, c_done, bp_error, spc, s_req>>
sosvars == <<x_sos, x_zi, stream_in, stream_out>>
shvars == <<ct_filters, ct_manager, ct_instances, created, cmds, sh_cmd, reported,
            escaped, sh_before, reconfigured>>
dispvars == <<d_cls, d_points, d_deques, d_lines, d_index, dm_plots, dm_state, frames,
              d_adv, d_last, d_before, d_raised, dm_raised>>
vars == <<fmvars, tgvars, runvars, filtvars, bpvars, sosvars, shvars, dispvars>>
\* What the actions of one component leave alone.
nonfm == <<tgvars, runvars, filtvars, bpvars, sosvars, shvars, dispvars>>
nontg == <<fmvars, runvars, filtvars, bpvars, sosvars, shvars, dispvars>>
nonrun == <<tgvars, filtvars, bpvars, sosvars, shvars, dispvars>>
nonfilt == <<fmvars, tgvars, runvars, bpvars, sosvars, shvars, dispvars>>
nonbp == <<fmvars, tgvars, runvars, filtvars, sosvars, shvars, dispvars>>
nonsos == <<fmvars, tgvars, runvars, filtvars, bpvars, shvars, dispvars>>
nonsh == <<tgvars, runvars, filtvars, bpvars, sosvars, dispvars>>
nondisp == <<fmvars, tgvars, runvars, filtvars, bpvars, sosvars, shvars>>

\* ------------------------------------------------------------ data values
\* The no-data sentinel (Python None) and a chunk. A chunk carries the filters
\* applied to it so far: process_chunk is an uninterpreted function of the
\* filter and the data, so two values are equal only if they were built alike.
NoneItem == [none |-> TRUE, id |-> 0, applied |-> <<>>]
Chunk(n) == [none |-> FALSE, id |-> n, applied |-> <<>>]

\* Filter.process_chunk(data) of filter object f.
ProcessChunk(f, data) == [data EXCEPT !.applied = Append(@, f)]

\* `raw_data is None`
IsSentinel_Never(x) == FALSE
IsSentinel(x) == x.none

\* The values of transform()'s yields: None, or the tuple (raw, filtered).
YieldNone == [none |-> TRUE, raw |-> NoneItem, filtered |-> NoneItem]
PairOf_Swapped(raw, filt) == [none |-> FALSE, raw |-> filt, filtered |-> raw]
PairOf(raw, filt) == [none |-> FALSE, raw |-> raw, filtered |-> filt]

\* ------------------------------------------------- the insertion-ordered dict
Entry(k, v) == [name |-> k, inst |-> v]
Keys_Reversed(d) == [i \in 1..Len(d) |-> d[Len(d) + 1 - i].name]
Keys(d) == [i \in 1..Len(d) |-> d[i].name]
Values(d) == [i \in 1..Len(d) |-> d[i].inst]
HasKey(d, k) == \E i \in 1..Len(d) : d[i].name = k

\* d[k] = v: a present key keeps its position, a new key goes last.
DictSet_Append(d, k, v) == Append(d, Entry(k, v))
DictSet_MoveToEnd(d, k, v) == Append(SelectSeq(d, LAMBDA e : e.name # k), Entry(k, v))
DictSet(d, k, v) ==
    IF HasKey(d, k)
    THEN [i \in 1..Len(d) |-> IF d[i].name = k THEN Entry(k, v) ELSE d[i]]
    ELSE Append(d, Entry(k, v))

\* del d[k]
DictDel_Last(d, k) == SubSeq(d, 1, Len(d) - 1)
DictDel(d, k) == SelectSeq(d, LAMBDA e : e.name # k)

\* self.filters = {}
DictClear_Tail(d) == IF d = <<>> THEN d ELSE Tail(d)
DictClear(d) == <<>>

\* len(self.filters) == 0
IsEmptyPipeline_OffByOne(d) == Len(d) = 1
IsEmptyPipeline(d) == Len(d) = 0

\* The i-th filter of the loop `for filt in current_filters`: the loop runs over
\* the snapshot cur, not over the live dict.
FilterAt_Live(cur, live, i) == IF i <= Len(live) THEN live[i].inst ELSE cur[i]
FilterAt_Reversed(cur, live, i) == cur[Len(cur) + 1 - i]
FilterAt(cur, live, i) == cur[i]

\* remove_filter(filter_name) on pipeline d: the new pipeline and what was printed.
RemoveFilter(d, n) ==
    IF n = "all" THEN [filters |-> DictClear(d), out |-> "cleared"]
    ELSE IF ~HasKey(d, n) THEN [filters |-> d, out |-> "not found"]
    ELSE [filters |-> DictDel(d, n), out |-> "removed"]

\* ----------------------------------------------------------------- Init
IdleShell == [op |-> "idle", name |-> "", inst |-> "", out |-> ""]

InitFM ==
    /\ raw_stream = "None"
    /\ filters = <<>>
    /\ lock = "free"
    /\ pc = "nogen"
    /\ raw_data = NoneItem
    /\ filtered_data = NoneItem
    /\ current_filters = <<>>
    /\ idx = 1
    /\ yielded = YieldNone
    /\ error = "none"
    /\ shell = IdleShell
    /\ ops = 0
    /\ listed = <<>>
    /\ input = <<>>
    /\ emitted = <<>>
    /\ invoked = <<>>
    /\ seen = {}
    /\ snap = <<>>
    /\ boundAtCall = FALSE
    /\ emptyAtTake = FALSE
    /\ emptyAtCheck = FALSE
    /\ clearedAtTake = FALSE
    /\ clearedAtCheck = FALSE
    /\ cleared = FALSE
    /\ lastOp = IdleShell
    /\ before = <<>>

InitTG ==
    /\ queue = <<>>
    /\ prod = "next"
    /\ item = NoneItem
    /\ produced = 0
    /\ cons = "idle"
    /\ got = [kind |-> "none", val |-> NoneItem]
    /\ prevq = <<>>
    /\ polls = 0
    /\ received = <<>>
    /\ stops = 0
    /\ stopRequested = FALSE

InitRun ==
    /\ run_pc = "main"
    /\ provider = "unregistered"
    /\ managers = FALSE
    /\ displays = 0
    /\ data_source = "none"
    /\ caught = "none"
    /\ warned = FALSE
    /\ run_error = "none"
    /\ plots = 0
    /\ master = FALSE
    /\ sleeps = 0

\* n_components of PCA() and IncrementalPCA() built without an argument.
NComponents == 2

\* A decomposition model that was never fitted.
NoModel == [features |-> 0, fits |-> 0]
NoCall == [kind |-> "nocall", pca |-> FALSE, val |-> <<>>]

InitFilt ==
    /\ fclass = "Differential"
    /\ n_components = NComponents
    /\ model = NoModel
    /\ chunk = <<>>
    /\ result = NoCall

\* BandPass() built without arguments: order and num_channels.
DefaultOrder == 5
DefaultChannels == 2

\* A cascade: which design it is, and its number of second-order sections.
Cascade(d, n) == [design |-> d, sections |-> n]
\* np.repeat(sosfilt_zi(sos)[:, np.newaxis, :], num_channels, axis=1): the
\* steady state of cascade c for nch channels, shape [sections, nch, 2];
\* fed counts the chunks filtered into the state since.
SteadyState(c, nch) ==
    [design |-> c.design, sections |-> c.sections, channels |-> nch, fed |-> 0]

NoRequest == [order |-> 0, valid |-> FALSE]
\* The locals of process_chunk outside a call.
NoCascade == [design |-> 0, sections |-> 0]
NoState == [design |-> 0, sections |-> 0, channels |-> 0, fed |-> 0]

InitBP ==
    /\ bp_class = "BandPass"
    /\ num_channels = DefaultChannels
    /\ sos = Cascade(0, DefaultOrder)
    /\ zi_init = SteadyState(Cascade(0, DefaultOrder), DefaultChannels)
    /\ zi = SteadyState(Cascade(0, DefaultOrder), DefaultChannels)
    /\ bp_lock = "free"
    /\ designs = 0
    /\ cpc = "idle"
    /\ c_data = 0
    /\ c_sos = NoCascade
    /\ c_zi = NoState
    /\ c_done = 0
    /\ bp_error = "none"
    /\ spc = "idle"
    /\ s_req = NoRequest

\* Sections of the cascade a design yields: butter(order, band, output='sos')
\* has `order` sections, tf2sos of the second-order notch has one.
Sections(cls, order) == IF cls = "BandPass" THEN order ELSE 1

\* One second-order section: y = b0*x + z0, z0' = b1*x - a1*y + z1,
\* z1' = b2*x - a2*y. The coefficients of section k of a design stand for the
\* ones butter / iirnotch compute: small integers, different from section to
\* section and from the band-pass to the notch.
Section(cls, k) ==
    IF cls = "BandPass"
    THEN [b0 |-> 1, b1 |-> k, b2 |-> -1, a1 |-> 1, a2 |-> k]
    ELSE [b0 |-> 1, b1 |-> -1, b2 |-> 1, a1 |-> -1, a2 |-> 1]
Design(cls, order) == [k \in 1..Sections(cls, order) |-> Section(cls, k)]

\* The state a design starts from, [section][channel], standing for
\* np.repeat(sosfilt_zi(sos)[:, np.newaxis, :], num_channels, axis=1).
InitialZi(c, nch) == [k \in 1..Len(c) |-> [ch \in 1..nch |-> <<c[k].b1, c[k].a2>>]]

\* A stream of no samples on nch channels.
NoSamples(nch) == [ch \in 1..nch |-> <<>>]

InitSos ==
    /\ x_sos = Design("BandPass", DefaultOrder)
    /\ x_zi = InitialZi(Design("BandPass", DefaultOrder), DefaultChannels)
    /\ stream_in = NoSamples(DefaultChannels)
    /\ stream_out = NoSamples(DefaultChannels)

NoCmd == [op |-> "none", arg |-> ""]

InitSh ==
    /\ ct_filters = {}
    /\ ct_manager = FALSE
    /\ ct_instances = [n \in Names |-> 0]
    /\ created = 0
    /\ cmds = 0
    /\ sh_cmd = NoCmd
    /\ reported = ""
    /\ escaped = FALSE
    /\ sh_before = <<>>
    /\ reconfigured = 0

\* `self.lines` of a display add_axis() was never called on: TimeDomain and
\* FrequencyDomain do not call DynamicDisplay.__init__.
NoLines == -1
NoCall_Display == [kind |-> "nocall", none |-> FALSE, x |-> <<>>, lines |-> NoLines]

InitDisp ==
    /\ d_cls = "none"
    /\ d_points = 0
    /\ d_deques = <<>>
    /\ d_lines = NoLines
    /\ d_index = -1
    /\ dm_plots = 0
    /\ dm_state = "new"
    /\ frames = 0
    /\ d_adv = <<>>
    /\ d_last = NoCall_Display
    /\ d_before = <<>>
    /\ d_raised = FALSE
    /\ dm_raised = FALSE

Init == InitFM /\ InitTG /\ InitRun /\ InitFilt /\ InitBP /\ InitSos /\ InitSh /\ InitDisp

\* The item is between its arrival (line 320) and its emission (line 326 / 339).
InFlight == pc \in {"len", "lock", "copy", "apply"}

genvars == <<pc, raw_data, filtered_data, current_filters, idx, yielded, error>>
shellvars == <<shell, ops, listed, cleared, lastOp, before>>
takevars == <<input, emitted, invoked, emptyAtTake, emptyAtCheck, clearedAtTake,
              clearedAtCheck, snap>>

\* ------------------------------------------------- FilterManager: the source
\* add_raw_stream(raw_stream)
AddRawStream ==
    /\ raw_stream = "None"
    /\ raw_stream' = "bound"
    /\ UNCHANGED <<filters, lock, genvars, shellvars, takevars, seen, boundAtCall>>
    /\ UNCHANGED nonfm

\* transform(): a generator function; the call builds the generator object and
\* runs none of the body.
CallTransform ==
    /\ pc = "nogen"
    /\ pc' = "created"
    /\ boundAtCall' = (raw_stream # "None")
    /\ UNCHANGED <<raw_stream, filters, lock, raw_data, filtered_data, current_filters,
                   idx, yielded, error, shellvars, takevars, seen>>
    /\ UNCHANGED nonfm

\* The first next() on the generator runs the body from its top: lines 316-317.
GenFirstNext ==
    /\ pc = "created"
    /\ IF raw_stream = "None"
       THEN pc' = "raised" /\ error' = "at_next"
       ELSE pc' = "iter" /\ error' = error
    /\ UNCHANGED <<raw_stream, filters, lock, raw_data, filtered_data, current_filters,
                   idx, yielded, shellvars, takevars, seen, boundAtCall>>
    /\ UNCHANGED nonfm

\* A later next() resumes the body after the yield: `continue`, or the loop's end.
GenResume ==
    /\ pc = "yielded"
    /\ pc' = "iter"
    /\ UNCHANGED <<raw_stream, filters, lock, raw_data, filtered_data, current_filters,
                   idx, yielded, error, shellvars, takevars, seen, boundAtCall>>
    /\ UNCHANGED nonfm

\* `for raw_data in self.raw_stream`, and the sentinel test of lines 321-323.
TakeItem ==
    /\ pc = "iter"
    /\ Len(input) < MaxItems
    /\ \E x \in {NoneItem, Chunk(Len(input) + 1)} :
        /\ input' = Append(input, x)
        /\ raw_data' = x
        /\ invoked' = <<>>
        /\ seen' = {Values(filters)}
        /\ snap' = <<>>
        /\ emptyAtTake' = (Len(filters) = 0)
        /\ clearedAtTake' = cleared
        /\ emptyAtCheck' = FALSE
        /\ clearedAtCheck' = FALSE
        /\ IF IsSentinel(x)
           THEN /\ yielded' = YieldNone
                /\ emitted' = Append(emitted, YieldNone.raw)
                /\ pc' = "yielded"
           ELSE /\ pc' = "len"
                /\ UNCHANGED <<yielded, emitted>>
    /\ UNCHANGED <<raw_stream, filters, lock, filtered_data, current_filters, idx,
                   error, shellvars, boundAtCall>>
    /\ UNCHANGED nonfm

\* Lines 325-329: the unlocked read of len(self.filters).
CheckLen ==
    /\ pc = "len"
    /\ emptyAtCheck' = (Len(filters) = 0)
    /\ clearedAtCheck' = cleared
    /\ IF IsEmptyPipeline(filters)
       THEN /\ yielded' = PairOf(raw_data, raw_data)
            /\ emitted' = Append(emitted, PairOf(raw_data, raw_data).raw)
            /\ pc' = "yielded"
            /\ UNCHANGED filtered_data
       ELSE /\ filtered_data' = raw_data
            /\ pc' = "lock"
            /\ UNCHANGED <<yielded, emitted>>
    /\ UNCHANGED <<raw_stream, filters, lock, raw_data, current_filters, idx, error,
                   shellvars, input, invoked, emptyAtTake, clearedAtTake, seen,
                   snap, boundAtCall>>
    /\ UNCHANGED nonfm

\* Line 332: `with self.lock`.
AcquireLock ==
    /\ pc = "lock"
    /\ lock = "free"
    /\ lock' = "consumer"
    /\ pc' = "copy"
    /\ UNCHANGED <<raw_stream, filters, raw_data, filtered_data, current_filters, idx,
                   yielded, error, shellvars, takevars, seen, boundAtCall>>
    /\ UNCHANGED nonfm

\* The manager lock once the with block of lines 332-333 is left.
LockAfterCopy_Held == "consumer"
LockAfterCopy == "free"

\* Line 333, and the release at the end of the with block.
CopySnapshot ==
    /\ pc = "copy"
    /\ current_filters' = Values(filters)
    /\ snap' = filters
    /\ idx' = 1
    /\ lock' = LockAfterCopy
    /\ pc' = "apply"
    /\ UNCHANGED <<raw_stream, filters, raw_data, filtered_data, yielded, error,
                   shellvars, input, emitted, invoked, emptyAtTake, emptyAtCheck,
                   clearedAtTake, clearedAtCheck, seen, boundAtCall>>
    /\ UNCHANGED nonfm

\* Lines 336-337: one turn of the loop over the snapshot.
ApplyFilter ==
    /\ pc = "apply"
    /\ idx <= Len(current_filters)
    /\ LET f == FilterAt(current_filters, filters, idx) IN
        /\ filtered_data' = ProcessChunk(f, filtered_data)
        /\ invoked' = Append(invoked, f)
    /\ idx' = idx + 1
    /\ UNCHANGED <<raw_stream, filters, lock, pc, raw_data, current_filters, yielded,
                   error, shellvars, input, emitted, emptyAtTake, emptyAtCheck,
                   clearedAtTake, clearedAtCheck, seen, snap, boundAtCall>>
    /\ UNCHANGED nonfm

\* Line 339: the loop is over, the pair is yielded.
EmitPair ==
    /\ pc = "apply"
    /\ idx > Len(current_filters)
    /\ yielded' = PairOf(raw_data, filtered_data)
    /\ emitted' = Append(emitted, PairOf(raw_data, filtered_data).raw)
    /\ pc' = "yielded"
    /\ UNCHANGED <<raw_stream, filters, lock, raw_data, filtered_data, current_filters,
                   idx, error, shellvars, input, invoked, emptyAtTake, emptyAtCheck,
                   clearedAtTake, clearedAtCheck, seen, snap, boundAtCall>>
    /\ UNCHANGED nonfm

\* ------------------------------------------- FilterManager: the shell thread
\* A command enters `with self.lock` (lines 291, 295, 308).
ShellCall ==
    /\ shell.op = "idle"
    /\ ops < MaxOps
    /\ lock = "free"
    /\ lock' = "shell"
    /\ ops' = ops + 1
    /\ \/ \E n \in Names, f \in Instances :
            shell' = [op |-> "add", name |-> n, inst |-> f, out |-> ""]
       \/ \E n \in RemoveNames :
            shell' = [op |-> "remove", name |-> n, inst |-> "", out |-> ""]
       \/ shell' = [op |-> "list", name |-> "", inst |-> "", out |-> ""]
    /\ UNCHANGED <<raw_stream, filters, genvars, listed, cleared, lastOp, before,
                   takevars, seen, boundAtCall>>
    /\ UNCHANGED nonfm

\* The pipelines held while an item is in flight.
Seen(d) == IF InFlight THEN seen \cup {Values(d)} ELSE seen

\* add_filter: line 292, and the release.
AddFilter ==
    /\ shell.op = "add"
    /\ filters' = DictSet(filters, shell.name, shell.inst)
    /\ lock' = "free"
    /\ shell' = IdleShell
    /\ lastOp' = [shell EXCEPT !.out = "added"]
    /\ before' = filters
    /\ cleared' = FALSE
    /\ seen' = Seen(filters')
    /\ UNCHANGED <<raw_stream, genvars, ops, listed, takevars, boundAtCall>>
    /\ UNCHANGED nonfm

\* remove_filter: lines 296-305, and the release.
RemoveFilterStep ==
    /\ shell.op = "remove"
    /\ LET r == RemoveFilter(filters, shell.name) IN
        /\ filters' = r.filters
        /\ lastOp' = [shell EXCEPT !.out = r.out]
        /\ cleared' = IF shell.name = "all" THEN TRUE ELSE cleared
    /\ lock' = "free"
    /\ shell' = IdleShell
    /\ before' = filters
    /\ seen' = Seen(filters')
    /\ UNCHANGED <<raw_stream, genvars, ops, listed, takevars, boundAtCall>>
    /\ UNCHANGED nonfm

\* list_filters: line 309, and the release.
ListFilters ==
    /\ shell.op = "list"
    /\ listed' = Keys(filters)
    /\ lock' = "free"
    /\ shell' = IdleShell
    /\ lastOp' = [shell EXCEPT !.out = "listed"]
    /\ UNCHANGED <<raw_stream, filters, genvars, ops, cleared, before, takevars, seen,
                   boundAtCall>>
    /\ UNCHANGED nonfm

Next ==
    \/ AddRawStream
    \/ CallTransform
    \/ GenFirstNext
    \/ GenResume
    \/ TakeItem
    \/ CheckLen
    \/ AcquireLock
    \/ CopySnapshot
    \/ ApplyFilter
    \/ EmitPair
    \/ ShellCall
    \/ AddFilter
    \/ RemoveFilterStep
    \/ ListFilters

Spec == Init /\ [][Next]_vars

\* ------------------------------------------------------- ThreadedGenerator
\* The class object StopIteration that _run queues when the generator has ended.
StopMarker == [none |-> FALSE, id |-> -1, applied |-> <<>>]

\* Whether the consumer's take from the queue can complete on queue q:
\* get_nowait() never waits, whatever q holds.
CanGet_Blocking(q) == q # <<>>
CanGet(q) == TRUE

\* Whether queue.put can complete on queue q: put() waits while the queue holds
\* maxsize items.
CanPut_Unbounded(q) == TRUE
CanPut_Never(q) == FALSE
CanPut(q) == Len(q) < MaxQueueSize

\* queue.put(x): a FIFO queue, the new item goes last.
Enqueue_Front(q, x) == <<x>> \o q
Enqueue(q, x) == Append(q, x)

\* get_nowait() takes the oldest item off a queue that holds one.
Dequeue_KeepMarker(q) == IF q = <<>> \/ Head(q) = StopMarker THEN q ELSE Tail(q)
Dequeue(q) == IF q = <<>> THEN q ELSE Tail(q)

\* The outcome of __next__ (lines 157-164) on queue q: the item returned, None on
\* queue.Empty, or StopIteration raised.
NextOutcome(q) ==
    IF q = <<>> THEN [kind |-> "none", val |-> NoneItem]
    ELSE IF Head(q) = StopMarker THEN [kind |-> "stop", val |-> NoneItem]
    ELSE [kind |-> "item", val |-> Head(q)]

\* _run, line 149: the producer thread asks the wrapped generator for an item.
\* The generator yields one (after sleeping or acquiring, as it likes) ...
ProdYield ==
    /\ prod = "next"
    /\ produced < MaxGen
    /\ produced' = produced + 1
    /\ item' = Chunk(produced + 1)
    /\ prod' = "put"
    /\ UNCHANGED <<queue, cons, got, prevq, polls, received, stops, stopRequested>>
    /\ UNCHANGED nontg

\* ... or ends, and the loop is left ...
ProdEnd ==
    /\ prod = "next"
    /\ prod' = "putstop"
    /\ UNCHANGED <<queue, item, produced, cons, got, prevq, polls, received, stops,
                   stopRequested>>
    /\ UNCHANGED nontg

\* ... or raises, and the exception ends the thread.
ProdDie_Marker ==
    /\ prod = "next"
    /\ prod' = "dead"
    /\ queue' = Enqueue(queue, StopMarker)
    /\ UNCHANGED <<item, produced, cons, got, prevq, polls, received, stops,
                   stopRequested>>
    /\ UNCHANGED nontg
ProdDie ==
    /\ prod = "next"
    /\ prod' = "dead"
    /\ UNCHANGED <<queue, item, produced, cons, got, prevq, polls, received, stops,
                   stopRequested>>
    /\ UNCHANGED nontg

\* _run, line 150: queue.put(item) waits while the queue is full.
ProdPut ==
    /\ prod = "put"
    /\ CanPut(queue)
    /\ queue' = Enqueue(queue, item)
    /\ prod' = "next"
    /\ UNCHANGED <<item, produced, cons, got, prevq, polls, received, stops,
                   stopRequested>>
    /\ UNCHANGED nontg

\* _run, line 151: queue.put(StopIteration).
ProdPutStop ==
    /\ prod = "putstop"
    /\ CanPut(queue)
    /\ queue' = Enqueue(queue, StopMarker)
    /\ prod' = "done"
    /\ UNCHANGED <<item, produced, cons, got, prevq, polls, received, stops,
                   stopRequested>>
    /\ UNCHANGED nontg

\* The consumer calls __next__.
ConsCall ==
    /\ cons = "idle"
    /\ polls < MaxPolls
    /\ polls' = polls + 1
    /\ cons' = "calling"
    /\ UNCHANGED <<queue, prod, item, produced, got, prevq, received, stops,
                   stopRequested>>
    /\ UNCHANGED nontg

\* __next__, lines 157-164: the take from the queue, and what is made of it.
ConsReturn ==
    /\ cons = "calling"
    /\ CanGet(queue)
    /\ prevq' = queue
    /\ got' = NextOutcome(queue)
    /\ queue' = Dequeue(queue)
    /\ cons' = "idle"
    /\ received' = IF NextOutcome(queue).kind = "item"
                   THEN Append(received, NextOutcome(queue).val) ELSE received
    /\ stops' = IF NextOutcome(queue).kind = "stop" THEN stops + 1 ELSE stops
    /\ UNCHANGED <<prod, item, produced, polls, stopRequested>>
    /\ UNCHANGED nontg

\* The application asks the source to stop: DataSource.close(), which MockSignal
\* inherits, does nothing, and ThreadedGenerator has no stop(): the producer
\* thread is told nothing.
StopRequest ==
    /\ ~stopRequested
    /\ stopRequested' = TRUE
    /\ UNCHANGED <<queue, prod, item, produced, cons, got, prevq, polls, received, stops>>
    /\ UNCHANGED nontg

NextTG ==
    \/ StopRequest
    \/ ProdYield
    \/ ProdEnd
    \/ ProdDie
    \/ ProdPut
    \/ ProdPutStop
    \/ ConsCall
    \/ ConsReturn

SpecTG == Init /\ [][NextTG]_vars

\* ================================================================ properties
YieldedPair == pc = "yielded" /\ ~yielded.none
LastInput == input[Len(input)]
CountKey(d, n) == Cardinality({i \in 1..Len(d) : d[i].name = n})
IndexOf(d, n) == CHOOSE i \in 1..Len(d) : d[i].name = n
Lookup(d, n) == d[IndexOf(d, n)].inst
Without(d, n) == SelectSeq(d, LAMBDA e : e.name # n)

\* fk.process_chunk(... f1.process_chunk(data) ...) for fs = <<f1, ..., fk>>
RECURSIVE ApplyAll(_, _)
ApplyAll(fs, data) ==
    IF fs = <<>> THEN data ELSE ApplyAll(Tail(fs), ProcessChunk(Head(fs), data))

\* C1: transform() emits exactly one output per item taken from the raw stream,
\* in the order taken, and the raw element of the n-th output is the n-th item:
\* nothing is skipped, duplicated or reordered.
C1_OrderPreserved ==
    /\ Len(emitted) <= Len(input)
    /\ \A n \in 1..Len(emitted) : emitted[n] = input[n]
    /\ (pc \in {"iter", "yielded"} => Len(emitted) = Len(input))
    /\ (InFlight => Len(emitted) = Len(input) - 1)
    /\ (pc = "yielded" => yielded.raw = LastInput)

C1_Witness ==
    /\ YieldedPair
    /\ Len(emitted) = 2
    /\ yielded.filtered.applied # <<>>

\* C2: the filters run on a chunk, in the order run, are exactly a pipeline that
\* self.filters held at one instant between the chunk's arrival and its emission,
\* whatever add_filter / remove_filter did meanwhile.
C2_AtomicMutation ==
    YieldedPair =>
        /\ invoked \in seen
        /\ yielded.filtered.applied = invoked

C2_Witness ==
    /\ YieldedPair
    /\ Cardinality(seen) >= 2
    /\ invoked # <<>>

\* C3: when the item taken is the sentinel None, the output for it is None and
\* process_chunk ran on no filter, whatever the pipeline holds.
C3_SentinelUntouched ==
    (pc = "yielded" /\ LastInput.none) =>
        /\ yielded = YieldNone
        /\ invoked = <<>>

C3_Witness ==
    /\ pc = "yielded"
    /\ LastInput.none
    /\ Len(filters) = 2

\* C4: transform() called with no source bound reports the error at the call
\* itself.
C4_FailFastAtCall ==
    (pc # "nogen" /\ ~boundAtCall) => error = "at_call"

\* C5 as stated: if the pipeline was empty when the chunk was taken from the raw
\* stream, the pair emitted is (raw, raw) and no filter ran.
C5_EmptyAtTake ==
    (YieldedPair /\ emptyAtTake) =>
        /\ yielded.filtered = yielded.raw
        /\ invoked = <<>>

\* C5 as amended: if the pipeline was empty when transform() read its length for
\* the chunk (line 325), the pair emitted is (raw, raw) and no filter ran.
C5_EmptyAtCheck ==
    (YieldedPair /\ emptyAtCheck) =>
        /\ yielded.filtered = yielded.raw
        /\ invoked = <<>>

C5_Witness ==
    /\ YieldedPair
    /\ emptyAtCheck
    /\ ~emptyAtTake

\* C6: for a non-empty snapshot f1..fk of the pipeline (in insertion order), the
\* filtered element is fk(... f1(raw) ...), and process_chunk ran once per entry
\* of the snapshot, in that order.
C6_InsertionOrderApplied ==
    (YieldedPair /\ snap # <<>>) =>
        /\ yielded.filtered = ApplyAll(Values(snap), yielded.raw)
        /\ invoked = Values(snap)

C6_Witness ==
    /\ YieldedPair
    /\ Len(snap) = 2
    /\ snap[1].inst # snap[2].inst

\* C7 as stated: after remove_filter("all") and before any add_filter,
\* list_filters() returns the empty list, and every chunk taken from the raw
\* stream in that period is emitted with filtered = raw.
C7_ClearedAtTake ==
    /\ (lastOp.op = "list" /\ cleared) => listed = <<>>
    /\ (YieldedPair /\ clearedAtTake) => yielded.filtered = yielded.raw

\* C7 as amended: after remove_filter("all") and before any add_filter,
\* list_filters() returns the empty list, and every chunk for which transform()
\* reads the pipeline's length (line 325) in that period is emitted with
\* filtered = raw.
C7_ClearedAtCheck ==
    /\ (lastOp.op = "list" /\ cleared) => listed = <<>>
    /\ (YieldedPair /\ clearedAtCheck) => yielded.filtered = yielded.raw

C7_Witness ==
    /\ YieldedPair
    /\ clearedAtCheck
    /\ lastOp.op = "list"
    /\ cleared
    /\ before # <<>>

\* C8: after add_filter(name, instance) the pipeline has exactly one entry under
\* name, mapped to instance; it grew by one entry if name was absent and kept its
\* size if name was present; every other entry is unchanged, in the same order.
C8_AddFilterFrame ==
    lastOp.op = "add" =>
        /\ CountKey(filters, lastOp.name) = 1
        /\ Lookup(filters, lastOp.name) = lastOp.inst
        /\ Len(filters) = Len(before) + (IF HasKey(before, lastOp.name) THEN 0 ELSE 1)
        /\ Without(filters, lastOp.name) = Without(before, lastOp.name)

C8_Witness ==
    /\ lastOp.op = "add"
    /\ Len(before) = 2
    /\ HasKey(before, lastOp.name)
    /\ Lookup(before, lastOp.name) # lastOp.inst

\* C9: remove_filter(name), name not "all": an unknown name changes nothing and
\* only prints; a present name removes that one entry and leaves the others as
\* they were, in the same order.
C9_RemoveFilterFrame ==
    (lastOp.op = "remove" /\ lastOp.name # "all") =>
        IF HasKey(before, lastOp.name)
        THEN LET p == IndexOf(before, lastOp.name) IN
             /\ lastOp.out = "removed"
             /\ Len(filters) = Len(before) - 1
             /\ \A i \in 1..Len(filters) :
                    filters[i] = IF i < p THEN before[i] ELSE before[i + 1]
        ELSE /\ lastOp.out = "not found"
             /\ filters = before

C9_Witness ==
    /\ lastOp.op = "remove"
    /\ lastOp.name # "all"
    /\ ~HasKey(before, lastOp.name)
    /\ before # <<>>

\* A chunk is at the head of queue q.
ChunkReady(q) == q # <<>> /\ Head(q) # StopMarker

\* C10 as stated: __next__ never waits, and returns None when no chunk is ready
\* and the oldest queued chunk otherwise.
C10_NoneOrChunk ==
    /\ cons = "calling" => ENABLED ConsReturn
    /\ (cons = "idle" /\ polls > 0) =>
        IF ChunkReady(prevq)
        THEN got = [kind |-> "item", val |-> Head(prevq)]
        ELSE got.kind = "none"

\* C10 as amended: __next__ never waits; it returns None when the queue is empty
\* and the oldest queued chunk when a chunk is at the head of the queue, and it
\* raises StopIteration when the end-of-stream marker is at the head.
C10_NeverBlocks ==
    /\ cons = "calling" => ENABLED ConsReturn
    /\ (cons = "idle" /\ polls > 0) =>
        IF ChunkReady(prevq)
        THEN got = [kind |-> "item", val |-> Head(prevq)]
        ELSE IF prevq = <<>> THEN got.kind = "none"
        ELSE got.kind = "stop"

C10_Witness ==
    /\ cons = "idle"
    /\ polls > 0
    /\ prevq = <<>>
    /\ got.kind = "none"
    /\ prod = "dead"

\* ------------------------------------------------ ThreadedGenerator, C11-C14
\* The items the wrapped generator has yielded, in order.
Yielded == [i \in 1..produced |-> Chunk(i)]
\* The chunks waiting in the queue, and the one the producer holds in put().
QueueChunks == SelectSeq(queue, LAMBDA x : x # StopMarker)
Held == IF prod = "put" THEN <<item>> ELSE <<>>

\* C11: the queue never holds more than its capacity; a producer whose put()
\* finds the queue full cannot complete it (it waits, queueing and dropping
\* nothing) and can complete it once an item was popped; every item yielded is
\* with the consumer, in the queue or in the producer's hands.
C11_BoundedQueue ==
    /\ Len(queue) <= MaxQueueSize
    /\ (prod = "put" /\ Len(queue) = MaxQueueSize) => ~ENABLED ProdPut
    /\ (prod = "putstop" /\ Len(queue) = MaxQueueSize) => ~ENABLED ProdPutStop
    /\ (prod = "put" /\ Len(queue) < MaxQueueSize) => ENABLED ProdPut
    /\ received \o QueueChunks \o Held = Yielded

C11_Witness ==
    /\ prod = "put"
    /\ Len(queue) = MaxQueueSize
    /\ received # <<>>

\* C12: the items __next__ returned are, in order, the first items the wrapped
\* generator yielded: FIFO, nothing lost, nothing twice.
C12_FifoPrefix ==
    /\ Len(received) <= produced
    /\ \A i \in 1..Len(received) : received[i] = Chunk(i)

C12_Witness ==
    /\ Len(received) = 2
    /\ QueueChunks # <<>>

\* C13: once the producer is dead the queue never grows, no poll raises, and a
\* poll returns the oldest queued item, or None when the queue is empty.
C13_DeadProducer ==
    [][prod = "dead" =>
        /\ Len(queue') <= Len(queue)
        /\ stops' = stops
        /\ (cons = "calling" /\ cons' = "idle") =>
              got' = IF queue = <<>> THEN [kind |-> "none", val |-> NoneItem]
                     ELSE [kind |-> "item", val |-> Head(queue)]]_vars

C13_Witness ==
    /\ prod = "dead"
    /\ cons = "idle"
    /\ received # <<>>
    /\ prevq = <<>>
    /\ got.kind = "none"
    /\ stops = 0

\* The producer thread has a step it can take.
ProducerCanStep ==
    \/ ENABLED ProdYield
    \/ ENABLED ProdEnd
    \/ ENABLED ProdDie
    \/ ENABLED ProdPut
    \/ ENABLED ProdPutStop

\* C14: once stop is requested, a producer that has not terminated can always
\* go on towards termination without a pop by the consumer, also when it is in
\* put() on a full queue.
C14_StopNeverStuck ==
    (stopRequested /\ prod \notin {"done", "dead"}) => ProducerCanStep

\* ============================================================ Container.run
\* The data sources main may register under "data_source".
Sources == {"NIDAQ", "MockSignal"}

\* What resolve("data_source") can do: raise ValueError for a name without a
\* provider, else run the provider, whose constructor may raise (NIDAQ opens
\* the acquisition task on the hardware).
ResolveOutcomes(p) ==
    IF p = "unregistered" THEN {"ValueError"}
    ELSE IF p = "NIDAQ" THEN {"ok", "DaqError"}
    ELSE {"ok"}

\* `except Exception`: both exceptions derive from Exception.
Caught_ValueErrorOnly(exc) == exc = "ValueError"
Caught(exc) == exc \in {"ValueError", "DaqError"}

\* data_source.data_stream(): MockSignal's is a generator function; NIDAQ
\* defines stream() and inherits DataSource.data_stream, which returns None.
DataStream(src) == IF src = "MockSignal" THEN "bound" ELSE "None"

fmrest == <<filters, lock, genvars, shellvars, takevars, seen>>

\* main populates the container before run().
Populate ==
    /\ run_pc = "main"
    /\ provider' \in Sources \cup {"unregistered"}
    /\ managers' \in BOOLEAN
    /\ displays' \in 0..MaxDisplays
    /\ run_pc' = "resolve_source"
    /\ UNCHANGED <<data_source, caught, warned, run_error, plots, master, sleeps>>
    /\ UNCHANGED <<fmvars, nonrun>>

\* Lines 79-83: the try block, and whether the except clause takes the exception.
RunResolveSource ==
    /\ run_pc = "resolve_source"
    /\ \E out \in ResolveOutcomes(provider) :
        IF out = "ok"
        THEN /\ data_source' = provider
             /\ run_pc' = "resolve_managers"
             /\ UNCHANGED <<caught, run_error>>
        ELSE IF Caught(out)
        THEN /\ caught' = out
             /\ run_pc' = "fallback"
             /\ UNCHANGED <<data_source, run_error>>
        ELSE /\ run_error' = "data_source"
             /\ run_pc' = "failed"
             /\ UNCHANGED <<data_source, caught>>
    /\ UNCHANGED <<provider, managers, displays, warned, plots, master, sleeps>>
    /\ UNCHANGED <<fmvars, nonrun>>

\* Lines 84-89: the warning, the re-registration and the second resolve.
RunFallback ==
    /\ run_pc = "fallback"
    /\ warned' = TRUE
    /\ provider' = "MockSignal"
    /\ data_source' = "MockSignal"
    /\ run_pc' = "resolve_managers"
    /\ UNCHANGED <<managers, displays, caught, run_error, plots, master, sleeps>>
    /\ UNCHANGED <<fmvars, nonrun>>

\* Lines 93 and 96: resolve("filter_manager"), resolve("display_manager").
RunResolveManagers ==
    /\ run_pc = "resolve_managers"
    /\ IF managers
       THEN run_pc' = "bind" /\ UNCHANGED run_error
       ELSE run_pc' = "failed" /\ run_error' = "managers"
    /\ UNCHANGED <<provider, managers, displays, data_source, caught, warned, plots,
                   master, sleeps>>
    /\ UNCHANGED <<fmvars, nonrun>>

\* Line 99: filter_manager.add_raw_stream(data_source.data_stream()).
RunBind ==
    /\ run_pc = "bind"
    /\ raw_stream' = DataStream(data_source)
    /\ run_pc' = "transform"
    /\ UNCHANGED <<fmrest, boundAtCall>>
    /\ UNCHANGED <<provider, managers, displays, data_source, caught, warned, run_error,
                   plots, master, sleeps>>
    /\ UNCHANGED nonrun

\* Line 101: master_stream = filter_manager.transform().
RunTransform ==
    /\ run_pc = "transform"
    /\ pc' = "created"
    /\ boundAtCall' = (raw_stream # "None")
    /\ run_pc' = "plots"
    /\ UNCHANGED <<raw_stream, filters, lock, raw_data, filtered_data, current_filters,
                   idx, yielded, error, shellvars, takevars, seen>>
    /\ UNCHANGED <<provider, managers, displays, data_source, caught, warned, run_error,
                   plots, master, sleeps>>
    /\ UNCHANGED nonrun

\* Lines 104-106: one turn of the loop over the registered displays.
RunAddPlot ==
    /\ run_pc = "plots"
    /\ plots < displays
    /\ plots' = plots + 1
    /\ UNCHANGED <<run_pc, provider, managers, displays, data_source, caught, warned,
                   run_error, master, sleeps>>
    /\ UNCHANGED <<fmvars, nonrun>>

\* Lines 109-111: add_master_stream(master_stream) and start(); from here the
\* animation of the display pulls one frame after the other from master_stream.
RunStart ==
    /\ run_pc = "plots"
    /\ plots = displays
    /\ master' = TRUE
    /\ run_pc' = "running"
    /\ UNCHANGED <<provider, managers, displays, data_source, caught, warned, run_error,
                   plots, sleeps>>
    /\ UNCHANGED <<fmvars, nonrun>>

\* The pulls of the display thread: next() on the generator of transform().
RunFirstNext == run_pc = "running" /\ GenFirstNext
RunResume == run_pc = "running" /\ GenResume

\* MockSignal.data_stream, lines 67-70: `while True: yield ...; time.sleep(...)`.
\* The stream bound at line 99 is the generator itself, so its body runs in the
\* thread that iterates it: resumed for its next item, it sleeps first.
SourceSleep ==
    /\ run_pc = "running"
    /\ pc = "iter"
    /\ 0 < Len(input)
    /\ sleeps < Len(input)
    /\ sleeps' = sleeps + 1
    /\ UNCHANGED <<run_pc, provider, managers, displays, data_source, caught, warned,
                   run_error, plots, master>>
    /\ UNCHANGED <<fmvars, nonrun>>

\* The item the source yields once its sleep is over; MockSignal yields chunks only.
RunTakeItem ==
    /\ run_pc = "running"
    /\ sleeps = Len(input)
    /\ TakeItem
    /\ ~IsSentinel(raw_data')

RunCheckLen == run_pc = "running" /\ CheckLen

NextRun ==
    \/ Populate
    \/ RunResolveSource
    \/ RunFallback
    \/ RunResolveManagers
    \/ RunBind
    \/ RunTransform
    \/ RunAddPlot
    \/ RunStart
    \/ RunFirstNext
    \/ RunResume
    \/ SourceSleep
    \/ RunTakeItem
    \/ RunCheckLen

SpecRun == Init /\ [][NextRun]_vars

\* C15: in the assembled system the pacing sleep of the synthetic source runs on
\* a producer thread of its own, so the thread pulling from transform() never
\* sleeps for the source.
C15_PacingOffConsumer == sleeps = 0

\* C18: a failure to resolve the data source never leaves run(); once caught,
\* the warning is printed, MockSignal is registered and resolved in its place,
\* and run() goes on to bind the filter manager and the display manager to it.
C18_FallbackToMock ==
    /\ run_error # "data_source"
    /\ caught # "none" =>
        /\ run_pc # "resolve_source"
        /\ run_pc # "fallback" =>
            warned /\ provider = "MockSignal" /\ data_source = "MockSignal"
        /\ run_pc = "failed" => ~managers
        /\ run_pc \in {"transform", "plots", "running"} => raw_stream = "bound"
        /\ run_pc \in {"plots", "running"} => boundAtCall
        /\ run_pc = "running" => master
        /\ error = "none"

C18_Witness ==
    /\ caught = "DaqError"
    /\ run_pc = "running"
    /\ yielded = PairOf(Chunk(1), Chunk(1))

\* ================================== Differential, PCA, IncrementalPCA
\* A chunk is a matrix [channel][sample], at least one channel and one sample.
SampleValues == {0, 1}
SampleCounts == {1, 2}
Chunks ==
    UNION {[1..c -> [1..n -> SampleValues]] : c \in 1..MaxChannels, n \in SampleCounts}

\* data.shape[0] and data.shape[1]
NumChannels(d) == Len(d)
NumSamples(d) == Len(d[1])

\* np.diff(data, axis=0)
Diff_AlongSamples(d) ==
    [i \in 1..Len(d) |-> [j \in 1..(Len(d[i]) - 1) |-> d[i][j + 1] - d[i][j]]]
Diff(d) ==
    [i \in 1..(Len(d) - 1) |-> [j \in 1..Len(d[i]) |-> d[i + 1][j] - d[i][j]]]

\* data.shape[0] < self.n_components
TooFewChannels_Samples(d, n) == NumSamples(d) < n
TooFewChannels(d, n) == NumChannels(d) < n

\* A call returns a chunk or raises. The chunk of components -> zero PC1 ->
\* inverse_transform, transposed back, is left uninterpreted: it is recorded as
\* the reconstruction (pca) of the chunk d it was computed from.
Returned(v) == [kind |-> "chunk", pca |-> FALSE, val |-> v]
Reconstructed(d) == [kind |-> "chunk", pca |-> TRUE, val |-> d]
Raised == [kind |-> "raised", pca |-> FALSE, val |-> <<>>]

\* sklearn refuses a fit with fewer samples than components.
FitRefused(d, n) == NumSamples(d) < n

\* Filter.PCA(n) / Filter.IncrementalPCA(n) / Filter.Differential()
Construct ==
    /\ \E k \in {"Differential", "PCA", "IncrementalPCA"} :
        /\ fclass' = k
        /\ IF k = "Differential"
           THEN n_components' = NComponents
           ELSE n_components' \in 1..MaxComponents
    /\ model' = NoModel
    /\ chunk' = <<>>
    /\ result' = NoCall
    /\ UNCHANGED nonfilt

\* Differential.process_chunk
DiffProcess ==
    /\ fclass = "Differential"
    /\ \E d \in Chunks :
        /\ chunk' = d
        /\ result' = Returned(Diff(d))
    /\ UNCHANGED <<fclass, n_components, model>>
    /\ UNCHANGED nonfilt

\* PCA.process_chunk: fit_transform fits self.pca anew on every chunk.
PCAProcess ==
    /\ fclass = "PCA"
    /\ \E d \in Chunks :
        /\ chunk' = d
        /\ IF TooFewChannels(d, n_components)
           THEN result' = Returned(d) /\ UNCHANGED model
           ELSE IF FitRefused(d, n_components)
           THEN result' = Raised /\ UNCHANGED model
           ELSE /\ model.fits < MaxFits
                /\ model' = [features |-> NumChannels(d), fits |-> model.fits + 1]
                /\ result' = Reconstructed(d)
    /\ UNCHANGED <<fclass, n_components>>
    /\ UNCHANGED nonfilt

\* partial_fit on model m: the first fit needs enough samples, a later one the
\* feature count the model was fitted on.
PartialFitRaises(m, d, n) ==
    IF m.fits = 0 THEN FitRefused(d, n) ELSE m.features # NumChannels(d)

\* IncrementalPCA.process_chunk: partial_fit, and on ValueError a new model and
\* a second partial_fit, whose ValueError leaves the call.
IPCAProcess ==
    /\ fclass = "IncrementalPCA"
    /\ \E d \in Chunks :
        /\ chunk' = d
        /\ IF TooFewChannels(d, n_components)
           THEN result' = Returned(d) /\ UNCHANGED model
           ELSE IF ~PartialFitRaises(model, d, n_components)
           THEN /\ model.fits < MaxFits
                /\ model' = [features |-> NumChannels(d), fits |-> model.fits + 1]
                /\ result' = Reconstructed(d)
           ELSE IF PartialFitRaises(NoModel, d, n_components)
           THEN model' = NoModel /\ result' = Raised
           ELSE /\ model' = [features |-> NumChannels(d), fits |-> 1]
                /\ result' = Reconstructed(d)
    /\ UNCHANGED <<fclass, n_components>>
    /\ UNCHANGED nonfilt

NextFilt ==
    \/ Construct
    \/ DiffProcess
    \/ PCAProcess
    \/ IPCAProcess

SpecFilt == Init /\ [][NextFilt]_vars

\* C16: Differential.process_chunk on a chunk of C channels and N samples
\* returns C-1 channels of N samples, row i being input row i+1 minus input
\* row i; the filter holds nothing from one call to the next.
C16_DifferentialRows ==
    (fclass = "Differential" /\ result # NoCall) =>
        /\ result.kind = "chunk"
        /\ Len(result.val) = NumChannels(chunk) - 1
        /\ \A i \in 1..(NumChannels(chunk) - 1) :
            /\ Len(result.val[i]) = NumSamples(chunk)
            /\ \A j \in 1..NumSamples(chunk) :
                result.val[i][j] = chunk[i + 1][j] - chunk[i][j]
        /\ model = NoModel

C16_Witness ==
    /\ fclass = "Differential"
    /\ NumChannels(chunk) = 3
    /\ result.val = <<<<1, -1>>, <<-1, 0>>>>

\* C17: a PCA or IncrementalPCA call on a chunk with fewer channels than
\* n_components returns that chunk itself, raises nothing and leaves the
\* decomposition model as it was.
C17_DegradeUnchanged ==
    [][(/\ fclass \in {"PCA", "IncrementalPCA"}
        /\ fclass' = fclass
        /\ result' # NoCall
        /\ NumChannels(chunk') < n_components')
       => (result' = Returned(chunk') /\ model' = model)]_vars

C17_Witness ==
    /\ fclass = "IncrementalPCA"
    /\ model.fits > 0
    /\ NumChannels(chunk) < n_components
    /\ result = Returned(chunk)

\* ====================================================== BandPass, Notch
BPClasses == {"BandPass", "Notch"}

\* `with self.lock`: the block is entered once the lock is free.
LockFree_Always(l) == TRUE
LockFree(l) == l = "free"

\* sosfilt(sos, data, zi=zi) accepts zi only of shape [sections, channels, 2].
ZiFits(c, z, nch) == z.sections = c.sections /\ z.channels = nch

\* BandPass(num_channels=nch, order=o) / Notch(num_channels=nch)
BPConstruct ==
    /\ cpc = "idle"
    /\ spc = "idle"
    /\ \E cls \in BPClasses, nch \in 1..MaxChannels, o \in 1..MaxOrder :
        /\ bp_class' = cls
        /\ num_channels' = nch
        /\ sos' = Cascade(0, Sections(cls, o))
        /\ zi_init' = SteadyState(Cascade(0, Sections(cls, o)), nch)
        /\ zi' = SteadyState(Cascade(0, Sections(cls, o)), nch)
    /\ bp_lock' = "free"
    /\ designs' = 0
    /\ c_done' = 0
    /\ bp_error' = "none"
    /\ UNCHANGED <<cpc, c_data, c_sos, c_zi, spc, s_req>>
    /\ UNCHANGED nonbp

\* process_chunk(data) is called with a chunk of some channel count.
BPCall ==
    /\ cpc = "idle"
    /\ c_done < MaxChunks
    /\ c_data' \in 1..MaxChannels
    /\ cpc' = "enter"
    /\ UNCHANGED <<bp_class, num_channels, sos, zi_init, zi, bp_lock, designs, c_sos,
                   c_zi, c_done, bp_error, spc, s_req>>
    /\ UNCHANGED nonbp

\* Line 71 / 117: `with self.lock`.
BPAcquire ==
    /\ cpc = "enter"
    /\ LockFree(bp_lock)
    /\ bp_lock' = "consumer"
    /\ cpc' = "sos"
    /\ UNCHANGED <<bp_class, num_channels, sos, zi_init, zi, designs, c_data, c_sos,
                   c_zi, c_done, bp_error, spc, s_req>>
    /\ UNCHANGED nonbp

\* Line 72 / 118: the arguments are evaluated left to right, self.sos first.
BPReadSos ==
    /\ cpc = "sos"
    /\ c_sos' = sos
    /\ cpc' = "zi"
    /\ UNCHANGED <<bp_class, num_channels, sos, zi_init, zi, bp_lock, designs, c_data,
                   c_zi, c_done, bp_error, spc, s_req>>
    /\ UNCHANGED nonbp

BPReadZi ==
    /\ cpc = "zi"
    /\ c_zi' = zi
    /\ cpc' = "filter"
    /\ UNCHANGED <<bp_class, num_channels, sos, zi_init, zi, bp_lock, designs, c_data,
                   c_sos, c_done, bp_error, spc, s_req>>
    /\ UNCHANGED nonbp

\* Line 72 / 118: sosfilt runs, and the state it returns is stored in self.zi;
\* a zi of the wrong shape makes it raise ValueError and nothing is stored.
BPFilter ==
    /\ cpc = "filter"
    /\ IF ZiFits(c_sos, c_zi, c_data)
       THEN /\ zi' = [c_zi EXCEPT !.fed = @ + 1]
            /\ bp_error' = "none"
       ELSE /\ bp_error' = "ValueError"
            /\ UNCHANGED zi
    /\ cpc' = "release"
    /\ UNCHANGED <<bp_class, num_channels, sos, zi_init, bp_lock, designs, c_data,
                   c_sos, c_zi, c_done, spc, s_req>>
    /\ UNCHANGED nonbp

\* The end of the with block, reached by the return and by the exception alike.
BPRelease ==
    /\ cpc = "release"
    /\ bp_lock' = "free"
    /\ cpc' = "idle"
    /\ c_done' = c_done + 1
    /\ c_data' = 0
    /\ c_sos' = NoCascade
    /\ c_zi' = NoState
    /\ UNCHANGED <<bp_class, num_channels, sos, zi_init, zi, designs, bp_error, spc,
                   s_req>>
    /\ UNCHANGED nonbp

\* The shell calls change_filt_coeffs(lowcut, highcut, order) on a BandPass,
\* change_notch_params(notch_freq, quality_factor) on a Notch; the frequencies
\* may be ones the design routine rejects.
SRequest ==
    /\ spc = "idle"
    /\ designs < MaxReconf
    /\ designs' = designs + 1
    /\ \E o \in 1..MaxOrder, ok \in BOOLEAN :
        s_req' = [order |-> IF bp_class = "BandPass" THEN o ELSE 0, valid |-> ok]
    /\ spc' = "enter"
    /\ UNCHANGED <<bp_class, num_channels, sos, zi_init, zi, bp_lock, cpc, c_data, c_sos,
                   c_zi, c_done, bp_error>>
    /\ UNCHANGED nonbp

\* Line 77 / 122: `with self.lock`.
SAcquire ==
    /\ spc = "enter"
    /\ LockFree(bp_lock)
    /\ bp_lock' = "shell"
    /\ spc' = "calc"
    /\ UNCHANGED <<bp_class, num_channels, sos, zi_init, zi, designs, cpc, c_data, c_sos,
                   c_zi, c_done, bp_error, s_req>>
    /\ UNCHANGED nonbp

\* Line 78 / 125-126: the new cascade; a rejected design raises inside the with
\* block, which releases the lock and leaves self.sos as it was.
SCalc ==
    /\ spc = "calc"
    /\ IF s_req.valid
       THEN /\ sos' = Cascade(designs, Sections(bp_class, s_req.order))
            /\ spc' = "zi_init"
            /\ UNCHANGED bp_lock
       ELSE /\ bp_lock' = "free"
            /\ spc' = "idle"
            /\ UNCHANGED sos
    /\ UNCHANGED <<bp_class, num_channels, zi_init, zi, designs, cpc, c_data, c_sos,
                   c_zi, c_done, bp_error, s_req>>
    /\ UNCHANGED nonbp

\* Lines 81-82 / 128-129: zi_init of the new cascade, for self.num_channels.
SZiInit ==
    /\ spc = "zi_init"
    /\ zi_init' = SteadyState(sos, num_channels)
    /\ spc' = "reset"
    /\ UNCHANGED <<bp_class, num_channels, sos, zi, bp_lock, designs, cpc, c_data, c_sos,
                   c_zi, c_done, bp_error, s_req>>
    /\ UNCHANGED nonbp

\* Line 83 / 130: reset_state().
SReset_Skip ==
    /\ spc = "reset"
    /\ spc' = "release"
    /\ UNCHANGED <<bp_class, num_channels, sos, zi_init, zi, bp_lock, designs, cpc,
                   c_data, c_sos, c_zi, c_done, bp_error, s_req>>
    /\ UNCHANGED nonbp
SReset ==
    /\ spc = "reset"
    /\ zi' = zi_init
    /\ spc' = "release"
    /\ UNCHANGED <<bp_class, num_channels, sos, zi_init, bp_lock, designs, cpc, c_data,
                   c_sos, c_zi, c_done, bp_error, s_req>>
    /\ UNCHANGED nonbp

\* The end of the with block; the print of line 84 / 131 follows.
SRelease ==
    /\ spc = "release"
    /\ bp_lock' = "free"
    /\ spc' = "idle"
    /\ UNCHANGED <<bp_class, num_channels, sos, zi_init, zi, designs, cpc, c_data, c_sos,
                   c_zi, c_done, bp_error, s_req>>
    /\ UNCHANGED nonbp

NextBP ==
    \/ BPConstruct
    \/ BPCall
    \/ BPAcquire
    \/ BPReadSos
    \/ BPReadZi
    \/ BPFilter
    \/ BPRelease
    \/ SRequest
    \/ SAcquire
    \/ SCalc
    \/ SZiInit
    \/ SReset
    \/ SRelease

SpecBP == Init /\ [][NextBP]_vars

\* C19: the persisted state always has shape [sections of the current cascade,
\* channel count, 2], so process_chunk never meets a state whose shape
\* disagrees with the cascade or with the chunk it is given, and never fails
\* on it.
C19_StateShape ==
    /\ bp_lock # "shell" => zi.sections = sos.sections
    /\ cpc = "filter" => ZiFits(c_sos, c_zi, c_data)
    /\ bp_error = "none"

\* C20: a process_chunk call uses one cascade and a state of that same cascade;
\* outside a reconfiguration in progress the persisted state and zi_init belong
\* to the current cascade, so no write-back of process_chunk survives a reset.
C20_ReconfigurationSafe ==
    /\ cpc \in {"filter", "release"} =>
        /\ c_zi.design = c_sos.design
        /\ c_zi.sections = c_sos.sections
    /\ bp_lock # "shell" =>
        /\ zi.design = sos.design
        /\ zi_init.design = sos.design
        /\ zi.sections = sos.sections
    /\ ~(cpc \in {"sos", "zi", "filter", "release"} /\ spc \in {"calc", "zi_init", "reset", "release"})

C20_Witness ==
    /\ spc = "enter"
    /\ cpc = "release"
    /\ bp_error = "none"
    /\ sos.design = 1
    /\ zi.fed = 1
    /\ c_done = 1

\* =================================== the pipeline with a BandPass in it
\* The filter object that is the band-pass: the one with a lock of its own,
\* and the one bp_filt reconfigures. The other filter object has no lock.
BPInstance == "f1"

\* The consumer is at a turn of the loop of lines 336-337 whose filter is f.
AtFilter(f) ==
    /\ pc = "apply"
    /\ idx <= Len(current_filters)
    /\ FilterAt(current_filters, filters, idx) = f

LkTakeItem == Len(input) < MaxLkItems /\ TakeItem

\* Line 337 on the band-pass: process_chunk is entered ...
LkProcessCall == AtFilter(BPInstance) /\ BPCall

\* ... and left: the filter's lock is released, and the loop moves on; the
\* ValueError of a state that does not fit the chunk ends the generator.
LkProcessReturn ==
    /\ AtFilter(BPInstance)
    /\ cpc = "release"
    /\ bp_lock' = "free"
    /\ cpc' = "idle"
    /\ c_done' = c_done + 1
    /\ c_data' = 0
    /\ c_sos' = NoCascade
    /\ c_zi' = NoState
    /\ IF bp_error = "none"
       THEN /\ filtered_data' = ProcessChunk(BPInstance, filtered_data)
            /\ invoked' = Append(invoked, BPInstance)
            /\ idx' = idx + 1
            /\ UNCHANGED <<pc, error>>
       ELSE /\ pc' = "raised"
            /\ error' = "process_chunk"
            /\ UNCHANGED <<filtered_data, invoked, idx>>
    /\ UNCHANGED <<bp_class, num_channels, sos, zi_init, zi, designs, bp_error, spc,
                   s_req>>
    /\ UNCHANGED <<raw_stream, filters, lock, raw_data, current_filters, yielded,
                   shellvars, input, emitted, emptyAtTake, emptyAtCheck, clearedAtTake,
                   clearedAtCheck, seen, snap, boundAtCall>>
    /\ UNCHANGED <<tgvars, runvars, filtvars, sosvars, shvars, dispvars>>

\* Line 337 on the filter without a lock.
LkApplyOther == ~AtFilter(BPInstance) /\ ApplyFilter

\* The shell thread runs one command at a time: a pipeline command ...
LkShellCall == spc = "idle" /\ ops + designs < MaxLkOps /\ ShellCall

\* ... or bp_filt, which calls change_filt_coeffs on the band-pass.
LkReconfigure == shell.op = "idle" /\ ops + designs < MaxLkOps /\ SRequest

NextLk ==
    \/ AddRawStream
    \/ CallTransform
    \/ GenFirstNext
    \/ GenResume
    \/ LkTakeItem
    \/ CheckLen
    \/ AcquireLock
    \/ CopySnapshot
    \/ LkApplyOther
    \/ LkProcessCall
    \/ BPAcquire
    \/ BPReadSos
    \/ BPReadZi
    \/ BPFilter
    \/ LkProcessReturn
    \/ EmitPair
    \/ LkShellCall
    \/ AddFilter
    \/ RemoveFilterStep
    \/ ListFilters
    \/ LkReconfigure
    \/ SAcquire
    \/ SCalc
    \/ SZiInit
    \/ SReset
    \/ SRelease

SpecLk == Init /\ [][NextLk]_vars

\* The consumer is inside process_chunk; the shell is inside a pipeline
\* command; the shell is inside the reconfiguration.
InProcessChunk == cpc # "idle"
InPipelineCommand == shell.op # "idle"
InReconfiguration == spc # "idle"

\* A step of the thread that holds a lock is possible.
HolderCanStep ==
    /\ lock = "consumer" => ENABLED CopySnapshot
    /\ lock = "shell" => ENABLED AddFilter \/ ENABLED RemoveFilterStep \/ ENABLED ListFilters
    /\ bp_lock = "consumer" =>
        ENABLED BPReadSos \/ ENABLED BPReadZi \/ ENABLED BPFilter \/ ENABLED LkProcessReturn
    /\ bp_lock = "shell" =>
        ENABLED SCalc \/ ENABLED SZiInit \/ ENABLED SReset \/ ENABLED SRelease

\* C21: the manager lock is held only around the copy or the mutation of the
\* filter list, never while process_chunk runs; no thread holds the manager
\* lock and the filter's lock together; a pipeline command completes while a
\* chunk is processed, and no state is a deadlock: whoever holds a lock can
\* take its next step.
C21_LocksDisjoint ==
    /\ lock = "consumer" => (pc = "copy" /\ ~InProcessChunk)
    /\ lock = "shell" => (InPipelineCommand /\ ~InReconfiguration)
    /\ InProcessChunk => lock # "consumer"
    /\ bp_lock = "shell" => lock # "shell"
    /\ bp_lock = "consumer" => lock # "consumer"
    /\ (InPipelineCommand /\ (InProcessChunk \/ pc = "apply")) =>
        ENABLED AddFilter \/ ENABLED RemoveFilterStep \/ ENABLED ListFilters
    /\ (InProcessChunk /\ lock = "free" /\ shell.op = "idle" /\ spc = "idle"
            /\ ops + designs < MaxLkOps) => ENABLED LkShellCall
    /\ HolderCanStep

C21_Witness ==
    /\ bp_lock = "consumer"
    /\ cpc = "filter"
    /\ lock = "shell"
    /\ shell.op = "remove"

\* C22: when change_filt_coeffs / change_notch_params is through, the cascade
\* is the one just designed and the persisted state is the steady state of
\* that cascade for every channel: nothing fed into the old state is left.
C22_ResetToSteadyState ==
    spc = "release" =>
        /\ sos = Cascade(designs, Sections(bp_class, s_req.order))
        /\ zi_init = SteadyState(sos, num_channels)
        /\ zi = SteadyState(sos, num_channels)
        /\ zi.fed = 0

C22_Witness ==
    /\ spc = "release"
    /\ designs = 1
    /\ c_done = 1
    /\ bp_error = "none"
    /\ sos.sections # DefaultOrder

\* ============================================ sosfilt and the carried state
\* One sample x through section s from state z = <<z0, z1>>.
Biquad(s, x, z) ==
    LET y == s.b0 * x + z[1] IN
    [y |-> y, z |-> <<s.b1 * x - s.a1 * y + z[2], s.b2 * x - s.a2 * y>>]

\* The samples xs of one channel through section s from state z.
RECURSIVE SectionRun(_, _, _)
SectionRun(s, xs, z) ==
    IF xs = <<>> THEN [y |-> <<>>, z |-> z]
    ELSE LET one == Biquad(s, Head(xs), z)
             rest == SectionRun(s, Tail(xs), one.z)
         IN [y |-> <<one.y>> \o rest.y, z |-> rest.z]

\* The samples xs of one channel through sections k..Len(c) of cascade c, zs
\* being that channel's state section by section: the output, and the states.
RECURSIVE CascadeRun(_, _, _, _)
CascadeRun(c, k, xs, zs) ==
    IF k > Len(c) THEN [y |-> xs, z |-> zs]
    ELSE LET r == SectionRun(c[k], xs, zs[k])
         IN CascadeRun(c, k + 1, r.y, [zs EXCEPT ![k] = r.z])

\* signal.sosfilt(sos, data, axis=-1, zi=zi): every channel on its own.
SosFilt(c, x, z) ==
    LET run(ch) == CascadeRun(c, 1, x[ch], [k \in 1..Len(c) |-> z[k][ch]])
    IN [y |-> [ch \in 1..Len(x) |-> run(ch).y],
        zf |-> [k \in 1..Len(c) |-> [ch \in 1..Len(x) |-> run(ch).z[k]]]]

\* `filtered_data, self.zi = sosfilt(...)`: the state self.zi holds afterwards,
\* zf being the one sosfilt returned and zold the one it was given.
StoredState_Dropped(zf, zold) == zold
StoredState(zf, zold) == zf

\* Chunks of n samples on DefaultChannels channels.
SosChunks(n) == [1..DefaultChannels -> [1..n -> SampleValues]]

\* x and y, sample after sample, channel by channel.
Concat(x, y) == [ch \in 1..Len(x) |-> x[ch] \o y[ch]]

\* The constructor, or change_filt_coeffs / change_notch_params: a design, and
\* the state reset to the start of that design.
SosDesign ==
    /\ \E cls \in {"BandPass", "Notch"}, o \in 1..MaxOrder :
        /\ x_sos' = Design(cls, o)
        /\ x_zi' = InitialZi(Design(cls, o), DefaultChannels)
    /\ stream_in' = NoSamples(DefaultChannels)
    /\ stream_out' = NoSamples(DefaultChannels)
    /\ UNCHANGED nonsos

\* process_chunk(data), lines 71-73 / 117-119.
SosProcess ==
    /\ \E n \in 1..(MaxStream - Len(stream_in[1])) : \E d \in SosChunks(n) :
        LET r == SosFilt(x_sos, d, x_zi) IN
        /\ x_zi' = StoredState(r.zf, x_zi)
        /\ stream_in' = Concat(stream_in, d)
        /\ stream_out' = Concat(stream_out, r.y)
    /\ UNCHANGED x_sos
    /\ UNCHANGED nonsos

NextSos ==
    \/ SosDesign
    \/ SosProcess

SpecSos == Init /\ [][NextSos]_vars

\* C23: with no reconfiguration in between, the outputs of the calls, put end
\* to end, are the output of one call on the whole stream from the state the
\* design started from, however the stream was cut into chunks; the state left
\* is the one that call leaves.
C23_ChunkingInvariant ==
    LET whole == SosFilt(x_sos, stream_in, InitialZi(x_sos, DefaultChannels)) IN
    /\ stream_out = whole.y
    /\ x_zi = whole.zf

\* A stream of three samples given as a chunk of one and a chunk of two, or
\* the other way round, or sample by sample.
C23_Witness ==
    /\ Len(x_sos) = 2
    /\ stream_in = <<<<1, 0, 1>>, <<0, 1, 1>>>>
    /\ x_zi # InitialZi(x_sos, DefaultChannels)

\* C24: an IncrementalPCA call on a chunk whose channel count, at least
\* n_components, differs from the one the running model was fitted on discards
\* the model, fits a new one on that chunk and returns a chunk of the new
\* channel count; no error leaves the call.
C24_ToleratesChannelChange ==
    [][(/\ fclass = "IncrementalPCA"
        /\ fclass' = fclass
        /\ result' # NoCall
        /\ model.fits > 0
        /\ NumChannels(chunk') >= n_components
        /\ NumChannels(chunk') # model.features)
       => (/\ result' = Reconstructed(chunk')
           /\ model' = [features |-> NumChannels(chunk'), fits |-> 1])]_vars

\* ============================================ the shell and the container
\* Container.get_instance(name) on the instances insts: the instance, or
\* ValueError for a name never resolved.
GetInstance(insts, name) ==
    IF insts[name] = 0 THEN [raised |-> TRUE, inst |-> 0]
    ELSE [raised |-> FALSE, inst |-> insts[name]]

\* Container.resolve, line 53: the instance _instances[name] holds once the
\* provider has built inst, old being the one held before.
StoredInstance_First(old, inst) == IF old # 0 THEN old ELSE inst
StoredInstance(old, inst) == inst

\* The pipeline is the only variable of the FilterManager a command changes.
nonfilters == <<raw_stream, lock, genvars, shellvars, takevars, seen, boundAtCall>>

\* main registers filter providers, and run() resolves the filter manager,
\* before the shell reads its first command - or does not.
ShStartup ==
    /\ cmds = 0
    /\ sh_cmd = NoCmd
    /\ ct_filters = {}
    /\ ~ct_manager
    /\ ct_filters' \in (SUBSET Names) \ {{}}
    /\ ct_manager' \in BOOLEAN
    /\ UNCHANGED <<ct_instances, created, cmds, sh_cmd, reported, escaped, sh_before,
                   reconfigured>>
    /\ UNCHANGED <<fmvars, nonsh>>

\* A command is read while the shell thread lives.
CanRead == cmds < MaxCmds /\ ~escaped

\* do_add_filt(arg), lines 131-138.
DoAddFilt ==
    /\ CanRead
    /\ \E n \in Names :
        /\ sh_cmd' = [op |-> "add_filt", arg |-> n]
        /\ IF ~ct_manager \/ n \notin ct_filters
           THEN /\ reported' = "Error adding filter"
                /\ UNCHANGED <<ct_instances, created, filters>>
           ELSE /\ created' = created + 1
                /\ ct_instances' =
                     [ct_instances EXCEPT ![n] = StoredInstance(@, created + 1)]
                /\ filters' = DictSet(filters, n, created + 1)
                /\ reported' = "added"
    /\ cmds' = cmds + 1
    /\ sh_before' = filters
    /\ UNCHANGED <<ct_filters, ct_manager, escaped, reconfigured>>
    /\ UNCHANGED <<nonfilters, nonsh>>

\* do_remove_filt(arg), lines 68-75.
DoRemoveFilt ==
    /\ CanRead
    /\ \E n \in RemoveNames :
        /\ sh_cmd' = [op |-> "remove_filt", arg |-> n]
        /\ IF ~ct_manager
           THEN /\ reported' = "Error removing filter"
                /\ UNCHANGED filters
           ELSE /\ filters' = RemoveFilter(filters, n).filters
                /\ reported' = "removed"
    /\ cmds' = cmds + 1
    /\ sh_before' = filters
    /\ UNCHANGED <<ct_filters, ct_manager, ct_instances, created, escaped, reconfigured>>
    /\ UNCHANGED <<nonfilters, nonsh>>

\* do_bp_filt(arg), lines 46-59: get_instance at line 46 is outside the try;
\* three arguments or not; a design change_filt_coeffs accepts or rejects.
DoBpFilt ==
    /\ CanRead
    /\ sh_cmd' = [op |-> "bp_filt", arg |-> "bp_filt"]
    /\ \E three \in BOOLEAN, valid \in BOOLEAN :
        IF GetInstance(ct_instances, "bp_filt").raised
        THEN /\ escaped' = TRUE
             /\ reported' = ""
             /\ UNCHANGED reconfigured
        ELSE IF ~three
        THEN /\ reported' = "Invalid arguments"
             /\ UNCHANGED <<escaped, reconfigured>>
        ELSE IF ~valid
        THEN /\ reported' = "Error changing filter coefficients"
             /\ UNCHANGED <<escaped, reconfigured>>
        ELSE /\ reconfigured' = GetInstance(ct_instances, "bp_filt").inst
             /\ reported' = "changed"
             /\ UNCHANGED escaped
    /\ cmds' = cmds + 1
    /\ sh_before' = filters
    /\ UNCHANGED <<ct_filters, ct_manager, ct_instances, created>>
    /\ UNCHANGED <<fmvars, nonsh>>

NextSh ==
    \/ ShStartup
    \/ DoAddFilt
    \/ DoRemoveFilt
    \/ DoBpFilt

SpecSh == Init /\ [][NextSh]_vars

\* C25: no exception leaves the handler of add_filt, remove_filt or bp_filt;
\* bp_filt with no band-pass instance in the container reports it and
\* returns, the filters and the pipeline being as they were.
C25_HandlersCatch ==
    /\ ~escaped
    /\ sh_cmd # NoCmd => reported # ""
    /\ (sh_cmd.op = "bp_filt" /\ ct_instances["bp_filt"] = 0) =>
        (filters = sh_before /\ reconfigured = 0)

\* C26: list_filters() returns the names in the pipeline, each once, in
\* insertion order, and the list it returned is not changed by anything that
\* happens to the pipeline later.
C26_ListSnapshot ==
    [][/\ (shell.op = "list" /\ shell'.op = "idle") =>
            /\ Len(listed') = Len(filters)
            /\ \A i \in 1..Len(filters) : listed'[i] = filters[i].name
            /\ \A i, j \in 1..Len(listed') : listed'[i] = listed'[j] => i = j
       /\ ~(shell.op = "list" /\ shell'.op = "idle") => listed' = listed]_vars

C26_Witness ==
    /\ Len(listed) = 1
    /\ lastOp.op = "remove"
    /\ lastOp.out = "removed"
    /\ filters = <<>>

\* ================================ ThreadedGenerator, polled for ever
\* A poll beyond the ones counted: the consumer goes on calling __next__.
ConsPollOn ==
    /\ cons = "idle"
    /\ polls = MaxPolls
    /\ cons' = "calling"
    /\ UNCHANGED <<queue, prod, item, produced, got, prevq, polls, received, stops,
                   stopRequested>>
    /\ UNCHANGED nontg

NextTGLive ==
    \/ ProdYield
    \/ ProdEnd
    \/ ProdDie
    \/ ProdPut
    \/ ProdPutStop
    \/ ConsCall
    \/ ConsPollOn
    \/ ConsReturn

\* The consumer keeps polling, and a thread that can run does run.
SpecTGLive ==
    /\ Init
    /\ [][NextTGLive]_vars
    /\ WF_vars(ConsCall \/ ConsPollOn)
    /\ WF_vars(ConsReturn)
    /\ WF_vars(ProdPut)
    /\ WF_vars(ProdPutStop)

\* The producer thread waits: it is alive and no step of _run is possible.
ProducerWaits ==
    /\ prod \notin {"done", "dead"}
    /\ ~(ENABLED ProdYield \/ ENABLED ProdEnd \/ ENABLED ProdDie \/ ENABLED ProdPut
            \/ ENABLED ProdPutStop)

\* C27: while the consumer polls, every chunk the producer has pushed or holds
\* for a push is returned to the consumer in the end, a producer waiting on a
\* full queue gets its push through in the end, and a full queue at a push is
\* the only thing the producer ever waits for.
C27_QueueProgress ==
    /\ \A i \in 1..MaxGen : (produced >= i) ~> (Len(received) >= i)
    /\ (prod = "put" /\ Len(queue) = MaxQueueSize) ~> (prod # "put")
    /\ (prod = "putstop" /\ Len(queue) = MaxQueueSize) ~> (prod = "done")
    /\ [](ProducerWaits => (prod \in {"put", "putstop"} /\ Len(queue) = MaxQueueSize))

C27_Witness ==
    /\ prod = "put"
    /\ Len(queue) = MaxQueueSize
    /\ produced = MaxGen
    /\ polls = MaxPolls
    /\ Len(received) = 1

\* C28: add_filter under a name the pipeline holds leaves the name where it
\* was; a name that was removed is gone, and adding an absent name puts it
\* last; the list of list_filters() and the filters transform() applies follow
\* the same order.
C28_PositionKept ==
    /\ (lastOp.op = "add" /\ HasKey(before, lastOp.name)) =>
        /\ IndexOf(filters, lastOp.name) = IndexOf(before, lastOp.name)
        /\ \A i \in 1..Len(before) : filters[i].name = before[i].name
    /\ (lastOp.op = "add" /\ ~HasKey(before, lastOp.name)) =>
        filters[Len(filters)].name = lastOp.name
    /\ (lastOp.op = "remove" /\ lastOp.out = "removed") => ~HasKey(filters, lastOp.name)
    /\ (pc = "apply" /\ lastOp.op = "list" /\ snap = filters) =>
        /\ Len(listed) = Len(current_filters)
        /\ \A i \in 1..Len(listed) : current_filters[i] = Lookup(filters, listed[i])

C28_Witness ==
    /\ lastOp.op = "add"
    /\ Len(before) = 2
    /\ before[1].name = lastOp.name
    /\ before[1].inst # lastOp.inst
    /\ filters[1].inst = lastOp.inst

\* C29: when the wrapped generator ends, __next__ raises StopIteration once,
\* after every item yielded was returned in order, and every poll after that
\* returns None.
C29_StopOnce ==
    /\ stops <= 1
    /\ stops = 1 =>
        /\ prod = "done"
        /\ received = Yielded
        /\ queue = <<>>
        /\ got.kind \in {"stop", "none"}
    /\ (stops = 1 /\ cons = "calling") => NextOutcome(queue).kind = "none"

C29_Witness ==
    /\ stops = 1
    /\ Len(received) >= 2
    /\ got.kind = "none"
    /\ prevq = <<>>
    /\ cons = "idle"

\* C30: every name in the pipeline holds the instance get_instance(name)
\* returns, so bp_filt reconfigures the band-pass that processes chunks;
\* remove_filt leaves the container's instance in place, so bp_filt after it
\* reconfigures a filter the pipeline no longer holds.
C30_ContainerAgrees ==
    /\ \A i \in 1..Len(filters) :
        /\ ~GetInstance(ct_instances, filters[i].name).raised
        /\ GetInstance(ct_instances, filters[i].name).inst = filters[i].inst
    /\ (sh_cmd.op = "bp_filt" /\ reported = "changed") =>
        /\ reconfigured = ct_instances["bp_filt"]
        /\ HasKey(filters, "bp_filt") => reconfigured = Lookup(filters, "bp_filt")
        /\ ~HasKey(filters, "bp_filt") =>
            /\ reconfigured # 0
            /\ \A i \in 1..Len(filters) : filters[i].inst # reconfigured
    /\ (sh_cmd.op = "remove_filt" /\ reported = "removed"
            /\ HasKey(sh_before, sh_cmd.arg)) =>
        /\ ~HasKey(filters, sh_cmd.arg)
        /\ GetInstance(ct_instances, sh_cmd.arg).inst = Lookup(sh_before, sh_cmd.arg)

C30_Witness ==
    /\ sh_cmd.op = "bp_filt"
    /\ reported = "changed"
    /\ reconfigured # 0
    /\ ~HasKey(filters, "bp_filt")

\* ===================================== TimeDomain, FrequencyDomain, DisplayManager
DisplayClasses == {"TimeDomain", "FrequencyDomain"}
\* num_channels and int(sample_rate * time_window) a display is built with.
LineCounts == {1, 2}
PointCounts == {1, 2}

\* A chunk handed to a display, [channel][sample]: n channels (none, fewer,
\* as many or more than the display has lines) of s samples, the samples of
\* channel ch being ch, so that a buffer shows which channel fed it.
DChunk(n, s) == [ch \in 1..n |-> [j \in 1..s |-> ch]]
DisplayChunks == {DChunk(n, s) : n \in 0..MaxChannels, s \in SampleCounts}
\* What update() is given: None, or a chunk.
NoData == [none |-> TRUE, x |-> <<>>]
DataItems == {NoData} \cup {[none |-> FALSE, x |-> c] : c \in DisplayChunks}
\* What _main_update is given: None, or the tuple (raw_data, filt_data).
NoFrame == [none |-> TRUE, raw |-> NoData, filt |-> NoData]
Frames == {NoFrame} \cup {[none |-> FALSE, raw |-> r, filt |-> f] : r, f \in DataItems}

\* num_samples_in_chunk, lines 65 / 133
SamplesInChunk(x) == IF Len(x) > 0 THEN Len(x[1]) ELSE 0

\* np.zeros(num_samples_in_chunk), lines 73 / 141
Padding_Empty(n) == <<>>
Padding(n) == [j \in 1..n |-> 0]

\* What buffer i is extended with, lines 68-73 / 136-141.
Incoming(x, i) == IF i <= Len(x) THEN x[i] ELSE Padding(SamplesInChunk(x))

\* deque(..., maxlen=m).extend(xs): the last m of what was held and what came.
Extend(q, xs, m) == SubSeq(q \o xs, Len(q \o xs) - m + 1, Len(q \o xs))

\* The buffers after the loop of update() over the lines.
Extended(deques, lines, x, m) ==
    [i \in 1..Len(deques) |->
        IF i <= lines THEN Extend(deques[i], Incoming(x, i), m) ELSE deques[i]]

\* start(), lines 251-266: the plot at position i (from 0) of n is given an
\* axis if its row and column are in the grid of 2 rows and max(1, n // 2)
\* columns.
Cols(n) == IF n \div 2 > 1 THEN n \div 2 ELSE 1
HasAxis(i, n) == (i \div Cols(n)) < 2 /\ (i % Cols(n)) < Cols(n)
\* Every plot before position i has its lines.
Reached(i, n) == \A j \in 0..(i - 1) : HasAxis(j, n)

\* TimeDomain(...) / FrequencyDomain(...): the buffers hold num_points zeros;
\* neither sets self.lines.
DispConstruct ==
    /\ d_cls = "none"
    /\ \E cls \in DisplayClasses, nch \in LineCounts, np \in PointCounts :
        /\ d_cls' = cls
        /\ d_points' = np
        /\ d_deques' = [i \in 1..nch |-> [j \in 1..np |-> 0]]
        /\ d_adv' = [i \in 1..nch |-> 0]
    /\ UNCHANGED <<d_lines, d_index, dm_plots, dm_state, frames, d_last, d_before,
                   d_raised, dm_raised>>
    /\ UNCHANGED nondisp

\* add_plot(display) with the display.
DmAddPlot ==
    /\ dm_state = "new"
    /\ d_cls # "none"
    /\ d_index = -1
    /\ dm_plots < MaxPlots
    /\ d_index' = dm_plots
    /\ dm_plots' = dm_plots + 1
    /\ UNCHANGED <<d_cls, d_points, d_deques, d_lines, dm_state, frames, d_adv, d_last,
                   d_before, d_raised, dm_raised>>
    /\ UNCHANGED nondisp

\* add_plot(plot) with another display.
DmAddOther ==
    /\ dm_state = "new"
    /\ dm_plots < MaxPlots
    /\ dm_plots' = dm_plots + 1
    /\ UNCHANGED <<d_cls, d_points, d_deques, d_lines, d_index, dm_state, frames, d_adv,
                   d_last, d_before, d_raised, dm_raised>>
    /\ UNCHANGED nondisp

\* start() with the master stream set. With one plot the grid is wrapped into
\* an array whose [0, 0] is not an axis and add_axis raises before it sets
\* self.lines; otherwise add_axis sets one line per buffer on the plots that
\* have a place in the grid.
DmStart ==
    /\ dm_state = "new"
    /\ IF dm_plots = 1
       THEN /\ dm_state' = "raised"
            /\ UNCHANGED d_lines
       ELSE /\ dm_state' = "started"
            /\ d_lines' = IF d_index >= 0 /\ HasAxis(d_index, dm_plots)
                          THEN Len(d_deques) ELSE d_lines
    /\ UNCHANGED <<d_cls, d_points, d_deques, d_index, dm_plots, frames, d_adv, d_last,
                   d_before, d_raised, dm_raised>>
    /\ UNCHANGED nondisp

\* update(data), lines 61-81 / 129-154, called from `kind`. `return self.lines`
\* and the loop over self.lines raise AttributeError while the attribute is
\* not set.
Update(kind, data) ==
    /\ d_last' = [kind |-> kind, none |-> data.none, x |-> data.x, lines |-> d_lines]
    /\ d_before' = d_deques
    /\ IF d_lines = NoLines
       THEN /\ d_raised' = TRUE
            /\ UNCHANGED <<d_deques, d_adv>>
       ELSE IF data.none
       THEN /\ d_raised' = FALSE
            /\ UNCHANGED <<d_deques, d_adv>>
       ELSE /\ d_raised' = FALSE
            /\ d_deques' = Extended(d_deques, d_lines, data.x, d_points)
            /\ d_adv' = [i \in 1..Len(d_adv) |->
                            IF i <= d_lines THEN d_adv[i] + Len(Incoming(data.x, i))
                            ELSE d_adv[i]]

\* _main_update(frame), lines 292-307: a None frame updates no plot; of a tuple
\* the first half of the plots is given raw_data and the rest filt_data, in
\* order, until a plot raises. d_last records what reached the display.
DmMainUpdate ==
    /\ dm_state = "started"
    /\ frames < MaxFrames
    /\ frames' = frames + 1
    /\ \E f \in Frames :
        /\ dm_raised' = \E i \in 0..(dm_plots - 1) : ~HasAxis(i, dm_plots)
        /\ IF d_index < 0 \/ (~f.none /\ ~Reached(d_index, dm_plots))
           THEN UNCHANGED <<d_deques, d_adv, d_last, d_before, d_raised>>
           ELSE IF f.none
           THEN /\ d_last' = [kind |-> "frame_none", none |-> TRUE, x |-> <<>>,
                              lines |-> d_lines]
                /\ d_before' = d_deques
                /\ d_raised' = FALSE
                /\ UNCHANGED <<d_deques, d_adv>>
           ELSE Update("frame", IF d_index < dm_plots \div 2 THEN f.raw ELSE f.filt)
    /\ UNCHANGED <<d_cls, d_points, d_lines, d_index, dm_plots, dm_state>>
    /\ UNCHANGED nondisp

\* update(data) called on the display.
DispUpdate ==
    /\ d_cls # "none"
    /\ frames < MaxFrames
    /\ frames' = frames + 1
    /\ \E data \in DataItems : Update("update", data)
    /\ UNCHANGED <<d_cls, d_points, d_lines, d_index, dm_plots, dm_state, dm_raised>>
    /\ UNCHANGED nondisp

NextDisp ==
    \/ DispConstruct
    \/ DmAddPlot
    \/ DmAddOther
    \/ DmStart
    \/ DmMainUpdate
    \/ DispUpdate

SpecDisp == Init /\ [][NextDisp]_vars

\* Sample k of buffer i after the chunk of the last call: the samples that
\* were held followed by the channel's samples, or by as many zeros as the
\* chunk has samples if it has no such channel, cut to the last num_points.
AfterLast(i) ==
    LET ns == IF Len(d_last.x) = 0 THEN 0 ELSE Len(d_last.x[1])
        came == IF i <= Len(d_last.x) THEN d_last.x[i] ELSE [j \in 1..ns |-> 0]
        all == d_before[i] \o came
    IN  [k \in 1..d_points |-> all[Len(all) - d_points + k]]

\* C31: whatever the channel counts of the chunks a TimeDomain or
\* FrequencyDomain display was given, every buffer holds num_points samples
\* and all buffers have advanced by the same number of samples: a channel the
\* chunk lacks is padded with zeros, a channel beyond the lines is ignored, and
\* a display that has its lines raises on no chunk; None leaves the buffers
\* as they were.
C31_BuffersInStep ==
    /\ \A i \in 1..Len(d_deques) :
        /\ Len(d_deques[i]) = d_points
        /\ d_adv[i] = d_adv[1]
    /\ Len(d_adv) = Len(d_deques)
    /\ d_last.none => d_deques = d_before
    /\ (d_last.kind # "nocall" /\ d_last.lines # NoLines) => ~d_raised
    /\ (d_last.kind # "nocall" /\ ~d_last.none /\ d_last.lines # NoLines) =>
        /\ Len(d_deques) = Len(d_before)
        /\ \A i \in 1..Len(d_deques) : d_deques[i] = AfterLast(i)

C31_Witness ==
    /\ d_last.kind = "frame"
    /\ ~d_last.none
    /\ Len(d_last.x) = 1
    /\ d_lines = 2
    /\ d_points = 2
    /\ d_deques = <<(<<1, 1>>), (<<2, 0>>)>>
    /\ d_adv = <<2, 2>>

====
